---- MODULE Spec2Model ----
(***************************************************************************)
(* Thread-Talk server: presence registry (app.py), JSON resource store and *)
(* conversation addressing (db_utils.py), message routing and group        *)
(* management handlers (app.py).                                           *)
(*                                                                         *)
(* Handlers are coroutines on one event loop: the code between two         *)
(* `await sio.emit(...)` calls runs without interruption, and any other    *)
(* handler may run while a handler is suspended in an emit.  The db_utils  *)
(* functions are synchronous, so each of them is one atomic step.          *)
(***************************************************************************)
EXTENDS Integers, Sequences, FiniteSets, TLC

\* ---------------------------------------------------------------- bounds
\* login, send_message, create_new_group and add_member requests in one run
MaxRequests == 4

\* the longest identity id the key function is checked on
MaxIdLen == 3

\* ---------------------------------------------------------------- inputs
\* Strings that the code compares or joins character by character are
\* sequences of one-character strings.
Users == { <<"a">>, <<"b">>, <<"a", "_", "b">> }
Passwords == { "x", "y" }
Sids == { "s1", "s2" }
Gids == { <<"g">> }
Names == { "n1" }
Texts == { "hi" }
TargetTypes == { "private", "group" }
Alphabet == { "_", "a", "b" }

\* target ids that no user registers: one holds the path separator, one the
\* separator of the private file names
OtherIds == { <<"/">>, <<"b", "_", "b">> }

\* None where a sid is expected, and where a username is expected
None == "None"
NoUser == <<>>

\* ------------------------------------------------------- python helpers
\* Code point of a character (str comparison in sorted()).
Ord(c) ==
    CASE c = "/" -> 47
      [] c = "_" -> 95
      [] c = "a" -> 97
      [] c = "b" -> 98
      [] c = "g" -> 103
      [] OTHER -> 0

RECURSIVE StrLess(_, _)
\* s < t for Python str: lexicographic by code point, a proper prefix is less.
StrLess(s, t) ==
    IF t = <<>> THEN FALSE
    ELSE IF s = <<>> THEN TRUE
    ELSE IF Ord(Head(s)) # Ord(Head(t)) THEN Ord(Head(s)) < Ord(Head(t))
    ELSE StrLess(Tail(s), Tail(t))

\* the participants in call order, not sorted
Sorted2_Unsorted(u1, u2) == <<u1, u2>>

\* sorted([u1, u2])
Sorted2(u1, u2) == IF StrLess(u2, u1) THEN <<u2, u1>> ELSE <<u1, u2>>

\* d[k] = v on a dict
DictSet(d, k, v) == [x \in (DOMAIN d) \cup {k} |-> IF x = k THEN v ELSE d[x]]

\* d.pop(k, None) on a dict (the dict that remains)
DictPop(d, k) == [x \in (DOMAIN d) \ {k} |-> d[x]]

\* d.get(k)
DictGet(d, k) == IF k \in DOMAIN d THEN d[k] ELSE None

EmptyDict == [x \in {} |-> None]

\* x in list
InList(x, l) == \E i \in 1..Len(l) : l[i] = x

VARIABLES
    users,            \* data/users.json: username -> password
    groups,           \* data/groups.json: gid -> [name, members]
    messages,         \* data/messages/: filename -> list of messages
    connected_users,  \* username -> sid
    sid_to_user,      \* sid -> username
    closed,           \* the sids whose disconnect event has been handled
    tasks,            \* handlers suspended in an emit
    outbox,           \* sid -> the events emitted to it, in emit order
    now,              \* datetime.now().timestamp(), as a logical clock
    requests,         \* requests handled so far
    lastEv            \* the reply to the request just handled, if it has one

vars == <<users, groups, messages, connected_users, sid_to_user, closed, tasks,
          outbox, now, requests, lastEv>>

NoEv == [op |-> "none"]

\* The JSON files outlive the process: it starts on an empty data directory
\* or on what an earlier run left there (three registered users and a group
\* they all belong to).  The presence maps always start empty.
Disks ==
    { [users |-> EmptyDict, groups |-> EmptyDict],
      [users |-> [u \in Users |-> "x"],
       groups |-> [g \in {<<"g">>} |->
                      [name |-> "n1",
                       members |-> << <<"a">>, <<"b">>, <<"a", "_", "b">> >>]]] }

Init ==
    /\ \E d \in Disks : users = d.users /\ groups = d.groups
    /\ messages = EmptyDict
    /\ connected_users = EmptyDict
    /\ sid_to_user = EmptyDict
    /\ closed = {}
    /\ tasks = {}
    /\ outbox = [s \in Sids |-> <<>>]
    /\ now = 1
    /\ requests = 0
    /\ lastEv = NoEv

\* A client sends a request on a connection that is not closed.
Request(sid) ==
    /\ sid \notin closed
    /\ requests < MaxRequests
    /\ requests' = requests + 1

\* ------------------------------------------------------------ lifecycle
\* disconnect without the check that sid is still the user's active one
DisconnectPop_Unguarded(cu, user, sid) == DictPop(cu, user)

\* connected_users after disconnect(sid), user being sid_to_user.pop(sid)
DisconnectPop(cu, user, sid) ==
    IF DictGet(cu, user) = sid THEN DictPop(cu, user) ELSE cu

disconnect(sid) ==
    /\ sid \notin closed
    /\ closed' = closed \cup {sid}
    /\ IF sid \in DOMAIN sid_to_user
       THEN /\ sid_to_user' = DictPop(sid_to_user, sid)
            /\ connected_users' =
                   DisconnectPop(connected_users, sid_to_user[sid], sid)
            /\ lastEv' = [op |-> "disconnect", sid |-> sid,
                          user |-> sid_to_user[sid]]
       ELSE /\ UNCHANGED <<sid_to_user, connected_users>>
            /\ lastEv' = [op |-> "disconnect", sid |-> sid, user |-> NoUser]
    /\ UNCHANGED <<users, groups, messages, tasks, outbox, now, requests>>

\* ----------------------------------------------------------------- auth
\* a login that stores the given password also for a known user
Register_Overwrite(us, u, p) == DictSet(us, u, p)

\* users after the auto-registration step of login
Register(us, u, p) == IF u \notin DOMAIN us THEN DictSet(us, u, p) ELSE us

\* a login that keeps the mapping of a user who is already online
MarkOnline_KeepFirst(cu, u, sid) ==
    IF u \in DOMAIN cu THEN cu ELSE DictSet(cu, u, sid)

\* connected_users after a successful login
MarkOnline(cu, u, sid) == DictSet(cu, u, sid)

login(sid, u, p) ==
    /\ Request(sid)
    /\ users' = Register(users, u, p)
    /\ IF users'[u] = p
       THEN /\ connected_users' = MarkOnline(connected_users, u, sid)
            /\ sid_to_user' = DictSet(sid_to_user, sid, u)
            /\ lastEv' = [op |-> "login", sid |-> sid, user |-> u, pw |-> p,
                          status |-> "ok"]
       ELSE /\ UNCHANGED <<connected_users, sid_to_user>>
            /\ lastEv' = [op |-> "login", sid |-> sid, user |-> u, pw |-> p,
                          status |-> "error"]
    /\ UNCHANGED <<groups, messages, closed, tasks, outbox, now>>

\* ------------------------------------------------------ resource store
\* _load_json(path, default) on the message directory
LoadJson(store, path, default) ==
    IF path \in DOMAIN store THEN store[path] ELSE default

\* _get_chat_filename(target_type, u1, u2_or_gid), without the directory
GetChatFilename(target_type, u1, u2_or_gid) ==
    IF target_type = "group"
    THEN <<"group", "_">> \o u2_or_gid \o <<".json">>
    ELSE LET participants == Sorted2(u1, u2_or_gid)
         IN  <<"private", "_">> \o participants[1] \o <<"_">>
                 \o participants[2] \o <<".json">>

\* open(path, 'w') succeeds: MSG_DIR has no subdirectories, so a file name
\* that holds a path separator names a directory that does not exist
Writable(path) == ~InList("/", path)

\* the new message put in front of the history
HistoryAppend_Prepend(history, msg) == <<msg>> \o history

\* history.append(msg)
HistoryAppend(history, msg) == Append(history, msg)

\* a save_message that builds the message and never writes the file
SaveMessage_NoWrite(store, target_type, sender, target_id, text, ts) == store

\* a save_message that does not read the stored history first
SaveMessage_NoRead(store, target_type, sender, target_id, text, ts) ==
    DictSet(store, GetChatFilename(target_type, sender, target_id),
            <<[from |-> sender, text |-> text, timestamp |-> ts]>>)

\* the message directory after save_message(target_type, sender, target_id, text)
SaveMessage(store, target_type, sender, target_id, text, ts) ==
    LET filepath == GetChatFilename(target_type, sender, target_id)
        history == LoadJson(store, filepath, <<>>)
        msg == [from |-> sender, text |-> text, timestamp |-> ts]
    IN  DictSet(store, filepath, HistoryAppend(history, msg))

\* load_history(target_type, username, target_id)
LoadHistory(store, target_type, username, target_id) ==
    LoadJson(store, GetChatFilename(target_type, username, target_id), <<>>)

\* groups.json after create_group(name, creator) drew the id gid
CreateGroup(gs, gid, name, creator) ==
    DictSet(gs, gid, [name |-> name, members |-> <<creator>>])

\* add_member_to_group without the membership test
AddMemberOk_NoMemberTest(gs, gid, username) == gid \in DOMAIN gs

\* the condition of add_member_to_group, which is also its return value
AddMemberOk(gs, gid, username) ==
    gid \in DOMAIN gs /\ ~InList(username, gs[gid].members)

\* groups.json after add_member_to_group(gid, username)
AddMemberToGroup(gs, gid, username) ==
    IF AddMemberOk(gs, gid, username)
    THEN [gs EXCEPT ![gid].members = Append(@, username)]
    ELSE gs

\* ------------------------------------------------------------- delivery
\* sio.emit(event, data, to=sid): the packet joins sid's outbound queue when
\* emit is called; the caller resumes later.
Emit(ob, sid, ev) == [ob EXCEPT ![sid] = Append(@, ev)]

\* a fan-out that does not skip the sender
Eligible_NoSkip(t, m) == m \in DOMAIN connected_users

\* an add_member that leaves the new member out of the member_added round
Eligible_SkipNew(t, m) ==
    /\ m \in DOMAIN connected_users
    /\ (t.kind = "send" /\ t.type = "group") => m # t.from
    /\ t.kind = "add" => m # t.new_user

\* The members a suspended handler still has to look at, and whether it
\* emits to member m when it gets there.
Eligible(t, m) ==
    /\ m \in DOMAIN connected_users
    /\ (t.kind = "send" /\ t.type = "group") => m # t.from

RECURSIVE FirstEligible(_, _, _)
\* index of the first member of todo, from i on, the handler emits to; 0 if none
FirstEligible(t, todo, i) ==
    IF i > Len(todo) THEN 0
    ELSE IF Eligible(t, todo[i]) THEN i
    ELSE FirstEligible(t, todo, i + 1)

\* A receive_message payload of send_message handler t.  With the payload
\* the model keeps what the emit was for: the request (req), the identity it
\* was made for (rcpt), whether it is the sender's echo (role) and the log
\* the message was appended to (conv).
ReceiveMessage(t, targetId, rcpt, role) ==
    [ev |-> "receive_message", targetId |-> targetId, from |-> t.from,
     text |-> t.text, timestamp |-> t.timestamp, type |-> t.type,
     req |-> t.req, rcpt |-> rcpt, role |-> role,
     conv |-> GetChatFilename(t.type, t.from, t.targetId)]

\* a response that carries the request's target id for every recipient
Response_TargetForAll(t, m) == ReceiveMessage(t, t.targetId, m, "copy")

\* `response`, as emitted to the other party or to a group member
Response(t, m) ==
    ReceiveMessage(t, IF t.type = "group" THEN t.targetId ELSE t.from,
                   m, "copy")

\* {**response, "targetId": target_id}, as emitted to the sender.  The model
\* keeps with the echo what the handler saw when it started: whether the
\* group existed (known), the members it will fan out to (fan) and, for a
\* group message, the connections closed so far (closed0).
Echo(t, gs) ==
    [ev |-> "receive_message", targetId |-> t.targetId, from |-> t.from,
     text |-> t.text, timestamp |-> t.timestamp, type |-> t.type,
     req |-> t.req, rcpt |-> t.from, role |-> "echo",
     conv |-> GetChatFilename(t.type, t.from, t.targetId),
     known |-> t.targetId \in DOMAIN gs, fan |-> t.todo,
     closed0 |-> IF t.type = "group" THEN closed ELSE {}]

\* the group_created payload
GroupCreated(gid, group, req, rcpt) ==
    [ev |-> "group_created", gid |-> gid, name |-> group.name,
     members |-> group.members, req |-> req, rcpt |-> rcpt]

\* the payload of the emit a suspended handler makes for member m
Payload(t, m) ==
    IF t.kind = "send"
    THEN Response(t, m)
    ELSE [ev |-> "member_added", gid |-> t.gid, name |-> t.name,
          members |-> t.members, req |-> t.req, rcpt |-> m]

\* tasks after handler t made the emit for todo[i]: once no member is left
\* the handler has only its return ahead of it, which changes nothing.
Suspend(ts, t, i) ==
    IF i = Len(t.todo) THEN ts \ {t}
    ELSE (ts \ {t}) \cup {[t EXCEPT !.todo = SubSeq(@, i + 1, Len(@))]}

\* the reply of add_member: {"status": "ok"} once returned, nothing before
AddReply(t, i) ==
    [op |-> "add_member", gid |-> t.gid, user |-> t.new_user, added |-> TRUE,
     returned |-> (i = 0 \/ i = Len(t.todo))]

\* the reply record of the step that handles the request, which came in on sid
AddReplyOn(sid, t, returned) ==
    [op |-> "add_member", gid |-> t.gid, user |-> t.new_user, added |-> TRUE,
     returned |-> returned, sid |-> sid]

\* A handler resumes after an emit: it runs to its next emit, or to its end.
resume(t) ==
    /\ t \in tasks
    /\ LET i == FirstEligible(t, t.todo, 1)
       IN  /\ tasks' = IF i = 0 THEN tasks \ {t} ELSE Suspend(tasks, t, i)
           /\ outbox' = IF i = 0 THEN outbox
                        ELSE Emit(outbox, connected_users[t.todo[i]],
                                  Payload(t, t.todo[i]))
           /\ lastEv' = IF t.kind = "add" /\ (i = 0 \/ i = Len(t.todo))
                        THEN AddReply(t, i) ELSE NoEv
    /\ UNCHANGED <<users, groups, messages, connected_users, sid_to_user,
                   closed, now, requests>>

\* ------------------------------------------------------------ messaging
fetch_history(sid, target_type, target_id) ==
    /\ sid \notin closed
    /\ UNCHANGED vars

\* what fetch_history(sid, data) returns in the current state
FetchHistory(sid, target_type, target_id) ==
    LoadHistory(messages, target_type, sid_to_user[sid], target_id)

\* a fan-out that reaches every user when the group is not known
FanOut_Broadcast(target_type, target_id, gs) ==
    IF target_type = "private" THEN <<target_id>>
    ELSE IF target_id \in DOMAIN gs THEN gs[target_id].members
    ELSE << <<"a">>, <<"b">>, <<"a", "_", "b">> >>

\* the members send_message fans out to after the echo
FanOut(target_type, target_id, gs) ==
    IF target_type = "private" THEN <<target_id>>
    ELSE IF target_id \in DOMAIN gs THEN gs[target_id].members
    ELSE <<>>

send_message(sid, target_type, target_id, text) ==
    /\ Request(sid)
    /\ IF sid \notin DOMAIN sid_to_user
       THEN /\ lastEv' = NoEv
            /\ UNCHANGED <<messages, tasks, outbox, now>>
       ELSE IF ~Writable(GetChatFilename(target_type, sid_to_user[sid],
                                         target_id))
       THEN /\ lastEv' = [op |-> "send_message", sid |-> sid, raised |-> TRUE]
            /\ UNCHANGED <<messages, tasks, outbox, now>>
       ELSE LET sender == sid_to_user[sid]
                t == [kind |-> "send", req |-> requests',
                      from |-> sender, type |-> target_type,
                      targetId |-> target_id, text |-> text,
                      timestamp |-> now,
                      todo |-> FanOut(target_type, target_id, groups)]
            IN  /\ messages' = SaveMessage(messages, target_type, sender,
                                           target_id, text, now)
                /\ now' = now + 1
                /\ outbox' = Emit(outbox, sid, Echo(t, groups))
                /\ tasks' = IF t.todo = <<>> THEN tasks ELSE tasks \cup {t}
                /\ lastEv' = NoEv
    /\ UNCHANGED <<users, groups, connected_users, sid_to_user, closed>>

\* ----------------------------------------------------- group management
create_new_group(sid, name, gid) ==
    /\ Request(sid)
    /\ IF sid \notin DOMAIN sid_to_user
       THEN /\ lastEv' = NoEv
            /\ UNCHANGED <<groups, outbox>>
       ELSE LET creator == sid_to_user[sid]
            IN  /\ groups' = CreateGroup(groups, gid, name, creator)
                /\ outbox' = Emit(outbox, sid,
                                  GroupCreated(gid, groups'[gid], requests',
                                               creator))
                /\ lastEv' = NoEv
    /\ UNCHANGED <<users, messages, connected_users, sid_to_user, closed,
                   tasks, now>>

add_member(sid, gid, new_user) ==
    /\ Request(sid)
    /\ groups' = AddMemberToGroup(groups, gid, new_user)
    /\ IF ~AddMemberOk(groups, gid, new_user)
       THEN /\ lastEv' = [op |-> "add_member", gid |-> gid, user |-> new_user,
                          added |-> FALSE, returned |-> TRUE, sid |-> sid]
            /\ UNCHANGED <<tasks, outbox>>
       ELSE LET group == groups'[gid]
                t == [kind |-> "add", req |-> requests',
                      gid |-> gid, name |-> group.name,
                      members |-> group.members, new_user |-> new_user,
                      todo |-> group.members]
                i == FirstEligible(t, t.todo, 1)
            IN  IF new_user \in DOMAIN connected_users
                THEN /\ outbox' = Emit(outbox, connected_users[new_user],
                                       GroupCreated(gid, group, t.req,
                                                    new_user))
                     /\ tasks' = tasks \cup {t}
                     /\ lastEv' = AddReplyOn(sid, t, FALSE)
                ELSE /\ outbox' = IF i = 0 THEN outbox
                                  ELSE Emit(outbox, connected_users[t.todo[i]],
                                            Payload(t, t.todo[i]))
                     /\ tasks' = IF i = 0 THEN tasks
                                 ELSE Suspend(tasks \cup {t}, t, i)
                     /\ lastEv' = AddReplyOn(sid, t, AddReply(t, i).returned)
    /\ UNCHANGED <<users, messages, connected_users, sid_to_user, closed, now>>

Targets(target_type) ==
    IF target_type = "group" THEN Gids ELSE Users \cup OtherIds

Next ==
    \/ \E sid \in Sids : disconnect(sid)
    \/ \E sid \in Sids, u \in Users, p \in Passwords : login(sid, u, p)
    \/ \E sid \in Sids, ty \in TargetTypes :
          \E target \in Targets(ty) : fetch_history(sid, ty, target)
    \/ \E sid \in Sids, ty \in TargetTypes, text \in Texts :
          \E target \in Targets(ty) : send_message(sid, ty, target, text)
    \/ \E sid \in Sids, name \in Names, gid \in Gids :
          create_new_group(sid, name, gid)
    \/ \E sid \in Sids, gid \in Gids, u \in Users : add_member(sid, gid, u)
    \/ \E t \in tasks : resume(t)

Spec == Init /\ [][Next]_vars

\* =============================================================== claims
\* the connection handles the presence registry resolves identity u to
Handles(u) == { s \in Sids : DictGet(connected_users, u) = s }

\* C1: every identity resolves to at most one connection handle, and right
\* after a successful login(u, s) the registry resolves u to s, also when u
\* was online on another connection before.
C1_SingleSession ==
    /\ \A u \in Users : Cardinality(Handles(u)) <= 1
    /\ (lastEv.op = "login" /\ lastEv.status = "ok")
          => Handles(lastEv.user) = {lastEv.sid}

\* u has just logged in on a connection while another open connection,
\* on which u logged in earlier, is still bound to u
C1_Witness ==
    /\ lastEv.op = "login" /\ lastEv.status = "ok"
    /\ \E s \in DOMAIN sid_to_user :
          s # lastEv.sid /\ sid_to_user[s] = lastEv.user

\* C2: disconnect(s) removes the mapping of an identity only when the stored
\* handle of that identity equals s; every identity online on another
\* handle stays online on that handle (a stale disconnect of s1 leaves u on s2).
C2_StaleDisconnectGuard ==
    [][\A s \in Sids :
          (s \notin closed /\ s \in closed') =>
              \A u \in DOMAIN connected_users :
                  connected_users[u] # s =>
                      /\ u \in DOMAIN connected_users'
                      /\ connected_users'[u] = connected_users[u]]_vars

\* the connection just disconnected was bound to a user who is online on
\* another connection, by a later login
C2_Witness ==
    /\ lastEv.op = "disconnect" /\ lastEv.user # NoUser
    /\ \E s \in Sids \ {lastEv.sid} : Handles(lastEv.user) = {s}

\* C3: once disconnect(s) has been handled no identity resolves to s.
C3_SessionDestroyed ==
    \A s \in closed, u \in Users : s \notin Handles(u)


\* the message of a receive_message payload, as save_message stored it
MsgOf(e) == [from |-> e.from, text |-> e.text, timestamp |-> e.timestamp]

\* the events emitted so far, on any connection
Emitted == UNION { {outbox[s][i] : i \in 1..Len(outbox[s])} : s \in Sids }

\* the echoes emitted so far: one per send_message request that was saved
Echoes == { e \in Emitted : e.ev = "receive_message" /\ e.role = "echo" }

\* every identity id of at most MaxIdLen characters
Ids == UNION { [1..n -> Alphabet] : n \in 1..MaxIdLen }

\* the key of (a, b) is the key of (b, a), for all ids
PrivateKeysSymmetric ==
    \A a \in Ids, b \in Ids :
        GetChatFilename("private", a, b) = GetChatFilename("private", b, a)

\* C4: the private conversation key of (a, b) equals that of (b, a): a message
\* sent by either party is in the log the other party's key names, and
\* fetch_history by a with target b returns what fetch_history by b with
\* target a returns.
C4_CanonicalSymmetry ==
    /\ PrivateKeysSymmetric
    /\ \A e \in Echoes :
          e.type = "private" =>
              InList(MsgOf(e),
                     LoadHistory(messages, "private", e.targetId, e.from))
    /\ \A s1 \in DOMAIN sid_to_user, s2 \in DOMAIN sid_to_user :
          FetchHistory(s1, "private", sid_to_user[s2])
              = FetchHistory(s2, "private", sid_to_user[s1])

\* two different identities have each sent the other a private message, and
\* both messages are in the one log
C4_Witness ==
    \E a \in Users, b \in Users :
        /\ StrLess(a, b)
        /\ LET h == LoadHistory(messages, "private", b, a)
           IN  /\ \E i \in 1..Len(h) : h[i].from = a
               /\ \E i \in 1..Len(h) : h[i].from = b

\* s is a prefix of t
IsPrefix(s, t) == Len(s) <= Len(t) /\ SubSeq(t, 1, Len(s)) = s

\* Every saved message is in the log of its conversation, every log entry is
\* a saved message of that conversation, and the entries of a log are in the
\* order their save_message calls ran (each call takes the next clock value).
LogsMatchSends ==
    LET E == Echoes
    IN  /\ \A e \in E : InList(MsgOf(e), LoadJson(messages, e.conv, <<>>))
        /\ \A k \in DOMAIN messages :
              LET h == messages[k]
              IN  /\ \A i \in 1..Len(h) :
                        \E e \in E : e.conv = k /\ MsgOf(e) = h[i]
                  /\ \A i \in 1..(Len(h) - 1) :
                        h[i].timestamp < h[i + 1].timestamp

\* C5: every log holds exactly the messages sent in its conversation, in the
\* order their appends completed, and a step only ever extends a log at its
\* end: an earlier fetch_history result is a prefix of every later one.
C5_AppendOnlyHistory ==
    /\ []LogsMatchSends
    /\ [][\A k \in DOMAIN messages :
             /\ k \in DOMAIN messages'
             /\ IsPrefix(messages[k], messages'[k])]_messages

\* a log holds two messages
C5_Witness == \E k \in DOMAIN messages : Len(messages[k]) >= 2


\* the places in the outboxes of the receive_message copies of request r
\* made for member m
CopiesFor(r, m) ==
    { p \in UNION { {<<s, i>> : i \in 1..Len(outbox[s])} : s \in Sids } :
        LET c == outbox[p[1]][p[2]]
        IN  /\ c.ev = "receive_message" /\ c.role = "copy"
            /\ c.req = r /\ c.rcpt = m }

\* the places in the outboxes of the echoes of request r
EchoesOf(r) ==
    { p \in UNION { {<<s, i>> : i \in 1..Len(outbox[s])} : s \in Sids } :
        LET c == outbox[p[1]][p[2]]
        IN  c.ev = "receive_message" /\ c.role = "echo" /\ c.req = r }

\* request r has run to its end
Done(r) == \A t \in tasks : t.req # r

\* the handler of the group message with echo e has run to its end and no
\* request or disconnect came in meanwhile: who is online now was online
\* throughout
Undisturbed(e) == Done(e.req) /\ requests = e.req /\ closed = e.closed0

\* what C6 says of the group message with echo e
FanOutComplete(e) ==
    LET log == LoadJson(messages, e.conv, <<>>)
    IN  /\ Cardinality(EchoesOf(e.req)) = 1
        /\ Cardinality({ i \in 1..Len(log) : log[i] = MsgOf(e) }) = 1
        /\ \A m \in Users :
              /\ Cardinality(CopiesFor(e.req, m)) <= 1
              /\ (~InList(m, e.fan) \/ m = e.from) => CopiesFor(e.req, m) = {}
              /\ \A p \in CopiesFor(e.req, m) :
                    /\ outbox[p[1]][p[2]].targetId = e.targetId
                    /\ MsgOf(outbox[p[1]][p[2]]) = MsgOf(e)
              /\ Undisturbed(e) =>
                    IF InList(m, e.fan) /\ m # e.from
                       /\ m \in DOMAIN connected_users
                    THEN \E p \in CopiesFor(e.req, m) :
                            p[1] = connected_users[m]
                    ELSE CopiesFor(e.req, m) = {}

\* C6: a group message to an existing group gets one echo, one copy for each
\* member other than the sender who is online, none for offline members and
\* non-members, and one log entry.
C6_GroupFanOut ==
    \A e \in Echoes : (e.type = "group" /\ e.known) => FanOutComplete(e)

\* a group message to a group of three has been handled undisturbed: the
\* sender has the echo, the online member a copy, the offline member none
C6_Witness ==
    \E e \in Echoes :
        /\ e.type = "group" /\ e.known /\ Undisturbed(e) /\ Len(e.fan) = 3
        /\ \E m \in Users :
              m # e.from /\ InList(m, e.fan) /\ CopiesFor(e.req, m) # {}
        /\ \E m \in Users : InList(m, e.fan) /\ m \notin DOMAIN connected_users

\* the step is the handling of a request of kind op, up to its first emit
Handling(op) == requests' = requests + 1 /\ lastEv'.op = op

\* C7: a login with an unknown id succeeds and stores the id with the given
\* secret; a login with a known id succeeds iff the secret is the stored
\* one; no step changes a stored secret.
C7_AutoRegistration ==
    [][/\ \A u \in DOMAIN users : u \in DOMAIN users' /\ users'[u] = users[u]
       /\ Handling("login") =>
             LET u == lastEv'.user
                 p == lastEv'.pw
             IN  IF u \notin DOMAIN users
                 THEN lastEv'.status = "ok" /\ users' = DictSet(users, u, p)
                 ELSE /\ lastEv'.status = "ok" <=> users[u] = p
                      /\ lastEv'.status \in {"ok", "error"}
                      /\ users' = users]_vars

\* a login was just rejected for an id that was registered, in this run,
\* with another secret
C7_Witness ==
    /\ lastEv.op = "login" /\ lastEv.status = "error"
    /\ users[lastEv.user] = "y" /\ lastEv.pw = "x"

\* no member list names an identity twice
NoDuplicateMembers ==
    \A g \in DOMAIN groups :
        \A i, j \in 1..Len(groups[g].members) :
            groups[g].members[i] = groups[g].members[j] => i = j

\* C8: add_member(g, u) returns true iff g exists and u is not a member,
\* and then appends u; otherwise it returns false and changes nothing; no
\* member list ever names an identity twice.
C8_IdempotentMembership ==
    /\ []NoDuplicateMembers
    /\ [][Handling("add_member") =>
             LET g == lastEv'.gid
                 u == lastEv'.user
             IN  IF g \in DOMAIN groups /\ ~InList(u, groups[g].members)
                 THEN /\ lastEv'.added
                      /\ groups' = [groups EXCEPT
                                       ![g].members = Append(@, u)]
                 ELSE ~lastEv'.added /\ groups' = groups]_vars

\* add_member was just refused for an identity that an earlier add_member
\* had appended to the group
C8_Witness ==
    /\ lastEv.op = "add_member" /\ ~lastEv.added
    /\ lastEv.gid \in DOMAIN groups
    /\ InList(lastEv.user, groups[lastEv.gid].members)
    /\ \E e \in Emitted :
          /\ e.ev = "member_added" /\ e.gid = lastEv.gid
          /\ e.members[Len(e.members)] = lastEv.user

\* C9: whatever handlers are suspended, the write of an add_member keeps
\* every member of every group and adds its own, and the write of a
\* send_message keeps every entry of every log and adds its own.
C9_NoLostUpdates ==
    [][/\ (Handling("add_member") /\ lastEv'.added) =>
             /\ \A g \in DOMAIN groups :
                   /\ g \in DOMAIN groups'
                   /\ \A i \in 1..Len(groups[g].members) :
                         InList(groups[g].members[i], groups'[g].members)
             /\ InList(lastEv'.user, groups'[lastEv'.gid].members)
       /\ now' # now =>
             /\ \A k \in DOMAIN messages :
                   /\ k \in DOMAIN messages'
                   /\ \A i \in 1..Len(messages[k]) :
                         InList(messages[k][i], messages'[k])
             /\ \E k \in DOMAIN messages' :
                   /\ Len(messages'[k]) = Len(LoadJson(messages, k, <<>>)) + 1
                   /\ messages'[k][Len(messages'[k])].timestamp = now]_vars

\* two add_member handlers for the same group and different identities are
\* suspended at once, and both identities are members
C9_WitnessAdds ==
    \E t1 \in tasks, t2 \in tasks :
        /\ t1.kind = "add" /\ t2.kind = "add"
        /\ t1.gid = t2.gid /\ t1.new_user # t2.new_user
        /\ t1.gid \in DOMAIN groups
        /\ InList(t1.new_user, groups[t1.gid].members)
        /\ InList(t2.new_user, groups[t1.gid].members)

\* C10: a connection that receives two messages of one sender in one
\* conversation receives them in the order they were appended to the log:
\* when it gets the later one it has already got the earlier one.
C10_PerSenderOrder ==
    \A s \in Sids :
        \A i, j \in 1..Len(outbox[s]) :
            LET m2 == outbox[s][i]
                m1 == outbox[s][j]
            IN  (/\ i < j
                 /\ m1.ev = "receive_message" /\ m2.ev = "receive_message"
                 /\ m1.from = m2.from /\ m1.conv = m2.conv
                 /\ m1.timestamp < m2.timestamp)
                    => \E k \in 1..(i - 1) :
                          /\ outbox[s][k].ev = "receive_message"
                          /\ outbox[s][k].timestamp = m1.timestamp

\* every message delivered so far, to its sender or to a recipient, is in
\* the log of its conversation
DeliveredIsLogged ==
    \A e \in Emitted :
        e.ev = "receive_message"
            => InList(MsgOf(e), LoadJson(messages, e.conv, <<>>))

\* C11: every receive_message delivery happens after the append, so each
\* delivered message is in its conversation's log at delivery time and
\* after; a send whose append raises delivers nothing to anyone and leaves
\* every log as it was.
C11_DurabilityBeforeDelivery ==
    /\ []DeliveredIsLogged
    /\ [][(requests' = requests + 1 /\ lastEv'.op = "send_message")
             => /\ lastEv'.raised
                /\ outbox' = outbox /\ tasks' = tasks
                /\ messages' = messages]_vars

\* a send has just failed in its append, after an earlier send was saved
\* and delivered to its recipient
C11_Witness ==
    /\ lastEv.op = "send_message" /\ lastEv.raised
    /\ \E e \in Emitted :
          /\ e.ev = "receive_message" /\ e.role = "copy"
          /\ InList(MsgOf(e), LoadJson(messages, e.conv, <<>>))

\* the receive_message events in the outbox of connection s
Received(s) ==
    { outbox[s][i] : i \in { j \in 1..Len(outbox[s]) :
                                outbox[s][j].ev = "receive_message" } }

\* C12: the targetId of a receive_message is the group id for a group
\* message; for a private message it is the target's id in the echo to the
\* sender and the sender's id in the copy to the target.
C12_AddressingField ==
    \A e \in Emitted :
        e.ev = "receive_message" =>
            IF e.type = "group"
            THEN e.conv = GetChatFilename("group", e.from, e.targetId)
            ELSE IF e.role = "echo"
            THEN e.conv = GetChatFilename("private", e.from, e.targetId)
            ELSE /\ e.targetId = e.from
                 /\ \E o \in Echoes :
                       o.req = e.req /\ o.from = e.from /\ o.targetId = e.rcpt

\* a private message between two identities on two connections: the
\* sender's connection has the echo addressed by the target's id, the
\* target's connection the copy addressed by the sender's id
C12_Witness ==
    \E s1 \in Sids, s2 \in Sids :
        /\ s1 # s2
        /\ \E o \in Received(s1), c \in Received(s2) :
              /\ o.role = "echo" /\ c.role = "copy" /\ o.req = c.req
              /\ o.type = "private" /\ o.from # o.targetId
              /\ c.targetId = o.from /\ o.targetId = c.rcpt

\* connection s is bound to an identity whose registered session is on
\* another connection: a later login of that identity superseded s
Superseded(s) ==
    /\ s \in DOMAIN sid_to_user
    /\ DictGet(connected_users, sid_to_user[s]) \in Sids \ {s}

\* the step handles a send_message that arrived on s: it appends the
\* message under the next timestamp and emits the echo to s
SendHandledOn(s) == now' # now /\ Len(outbox'[s]) > Len(outbox[s])

\* C13: a send_message arriving on a connection whose identity has since
\* logged in on another connection is ignored: it appends nothing to any
\* log and causes no receive_message delivery.
C13_StaleSendIgnored ==
    [][\A s \in Sids : Superseded(s) => ~SendHandledOn(s)]_vars

\* the receive_message events of request r, in any outbox, echo or copy
DeliveriesOf(r) ==
    { p \in UNION { {<<s, i>> : i \in 1..Len(outbox[s])} : s \in Sids } :
        /\ outbox[p[1]][p[2]].ev = "receive_message"
        /\ outbox[p[1]][p[2]].req = r }

\* C14: a group message to an id that is not an existing group is appended
\* once to the log keyed by that id and echoed once to the sender; nothing
\* else is delivered and the handler ends without a fan-out.
C14_UnknownGroupSend ==
    \A e \in Echoes :
        (e.type = "group" /\ ~e.known) =>
            LET log == LoadJson(messages,
                                GetChatFilename("group", e.from, e.targetId),
                                <<>>)
            IN  /\ Cardinality({ i \in 1..Len(log) : log[i] = MsgOf(e) }) = 1
                /\ DeliveriesOf(e.req) = EchoesOf(e.req)
                /\ Cardinality(EchoesOf(e.req)) = 1
                /\ Done(e.req)

\* a group message to an unknown id was echoed to its sender while another
\* identity was online on the other, open, connection
C14_Witness ==
    \E s1 \in Sids, s2 \in Sids \ closed :
        /\ s1 # s2
        /\ s2 \in DOMAIN sid_to_user
        /\ DictGet(connected_users, sid_to_user[s2]) = s2
        /\ \E e \in Received(s1) :
              /\ e.role = "echo" /\ e.type = "group" /\ ~e.known
              /\ e.from # sid_to_user[s2]
              /\ e.req = requests

\* the event the step appends to the outbox of s is a group_created sent by
\* create_new_group (add_member replies, create_new_group does not)
CreateHandledOn(s) ==
    /\ requests' = requests + 1 /\ lastEv' = NoEv
    /\ Len(outbox'[s]) = Len(outbox[s]) + 1
    /\ outbox'[s][Len(outbox'[s])].ev = "group_created"

\* C15: create_group inserts one group under an id that was not a key of
\* groups, with members [creator], and leaves every existing group's name
\* and members as they were; members are only ever appended, so a group
\* keeps its name and its first member for ever.
C15_CreateGroupFresh ==
    [][/\ \A s \in Sids :
             CreateHandledOn(s) =>
                 LET e == outbox'[s][Len(outbox'[s])]
                 IN  /\ e.gid \notin DOMAIN groups
                     /\ groups' = DictSet(groups, e.gid,
                                          [name |-> e.name,
                                           members |-> <<sid_to_user[s]>>])
       /\ \A g \in DOMAIN groups :
             /\ g \in DOMAIN groups'
             /\ groups'[g].name = groups[g].name
             /\ IsPrefix(groups[g].members, groups'[g].members)]_vars

\* the events add_member handlers emitted: member_added, and the
\* group_created for the new member (create_new_group sends group_created
\* with the creator as only member)
AddEvents ==
    { e \in Emitted :
        \/ e.ev = "member_added"
        \/ e.ev = "group_created" /\ Len(e.members) > 1 }

\* the places in the outboxes of the events named ev that request r emitted
\* for identity m
PlacesOf(ev, r, m) ==
    { p \in UNION { {<<s, i>> : i \in 1..Len(outbox[s])} : s \in Sids } :
        LET c == outbox[p[1]][p[2]]
        IN  c.ev = ev /\ c.req = r /\ c.rcpt = m }

\* what C16 says of the add_member request that emitted e: every event of
\* the request carries the updated member list; a member gets at most one
\* member_added and a non-member none, only the new member gets a
\* group_created; and while no request came in since, every member who is
\* online has its member_added and the new member its group_created.
AddNotified(e) ==
    LET u == e.members[Len(e.members)]
    IN  /\ \A o \in AddEvents :
              o.req = e.req =>
                  o.gid = e.gid /\ o.name = e.name /\ o.members = e.members
        /\ \A m \in Users :
              /\ Cardinality(PlacesOf("member_added", e.req, m)) <= 1
              /\ ~InList(m, e.members)
                    => PlacesOf("member_added", e.req, m) = {}
              /\ Cardinality(PlacesOf("group_created", e.req, m))
                    <= (IF m = u THEN 1 ELSE 0)
              /\ (/\ Done(e.req) /\ requests = e.req
                  /\ InList(m, e.members) /\ m \in DOMAIN connected_users)
                    => \E p \in PlacesOf("member_added", e.req, m) :
                          p[1] = connected_users[m]
              /\ (requests = e.req /\ m = u /\ m \in DOMAIN connected_users)
                    => \E p \in PlacesOf("group_created", e.req, m) :
                          p[1] = connected_users[m]

\* what C16 says of the step that handles an add_member request
AddHandled ==
    LET g == lastEv'.gid
    IN  IF lastEv'.added
        THEN IF \E m \in DOMAIN connected_users :
                    InList(m, groups'[g].members)
             THEN \E s \in Sids :
                     /\ Len(outbox'[s]) = Len(outbox[s]) + 1
                     /\ LET e == outbox'[s][Len(outbox'[s])]
                        IN  /\ e \in { GroupCreated(g, groups'[g], requests',
                                                     lastEv'.user),
                                        [ev |-> "member_added", gid |-> g,
                                         name |-> groups'[g].name,
                                         members |-> groups'[g].members,
                                         req |-> requests', rcpt |-> e.rcpt] }
                            /\ connected_users[e.rcpt] = s
             ELSE outbox' = outbox /\ tasks' = tasks /\ lastEv'.returned
        ELSE /\ lastEv'.returned
             /\ outbox' = outbox /\ tasks' = tasks /\ groups' = groups

\* C16: a successful add_member answers ok, sends the new member one
\* group_created if it is online and every online member, the new one
\* included, one member_added with the updated member list; a failed one
\* answers error, emits nothing and leaves groups unchanged.
C16_AddMemberNotifications ==
    /\ [](\A e \in AddEvents : AddNotified(e))
    /\ [][Handling("add_member") => AddHandled]_vars

\* add_member has returned ok with nothing handled since: the new member
\* and an older member are online on two connections, the new member has
\* the group_created and both have the member_added
C16_Witness ==
    /\ lastEv.op = "add_member" /\ lastEv.added /\ lastEv.returned
    /\ \E e \in AddEvents :
          /\ e.req = requests /\ Done(e.req)
          /\ e.members[Len(e.members)] = lastEv.user
          /\ PlacesOf("group_created", e.req, lastEv.user) # {}
          /\ \E m \in Users \ {lastEv.user} :
                /\ m \in DOMAIN connected_users
                /\ connected_users[m] # connected_users[lastEv.user]
                /\ PlacesOf("member_added", e.req, m) # {}
                /\ PlacesOf("member_added", e.req, lastEv.user) # {}

\* the two parties of the private message that event e delivers
Parties(e) == { e.from, IF e.role = "echo" THEN e.targetId ELSE e.rcpt }

\* C17: a receive_message of a private message from a to b is delivered
\* only to an open connection whose bound identity (its latest successful
\* login) is a or b, never to one acting as a third identity.
C17_PrivateConfinement ==
    [][\A s \in Sids \ closed :
          Len(outbox'[s]) > Len(outbox[s]) =>
              LET e == outbox'[s][Len(outbox'[s])]
              IN  (e.ev = "receive_message" /\ e.type = "private") =>
                      /\ s \in DOMAIN sid_to_user
                      /\ sid_to_user[s] \in Parties(e)]_vars

\* the step handles a request that came in on s and writes groups or a
\* log, or emits
MutationOn(s) ==
    \/ SendHandledOn(s)
    \/ CreateHandledOn(s)
    \/ Handling("add_member") /\ lastEv'.added /\ lastEv'.sid = s

\* C18: groups and the logs are written, and a request's events emitted,
\* only by the handling of an event that came in on a connection bound to
\* an identity by a successful login; an event from a connection that
\* never logged in changes nothing and delivers nothing.
C18_AuthenticatedMutation ==
    [][(\/ groups' # groups
        \/ messages' # messages
        \/ requests' # requests /\ outbox' # outbox)
          => \E s \in DOMAIN sid_to_user : s \notin closed /\ MutationOn(s)]_vars

\* C19: two different conversations never share a log: a message sent in
\* one conversation is returned by fetch_history only for that
\* conversation, that is for the same group id, or for the same pair of
\* identities, whatever characters the ids hold.
C19_ConversationIsolation ==
    \A e \in Echoes, s \in DOMAIN sid_to_user, ty \in TargetTypes :
        \A target \in Targets(ty) :
            InList(MsgOf(e), FetchHistory(s, ty, target)) =>
                /\ ty = e.type
                /\ IF ty = "group"
                   THEN target = e.targetId
                   ELSE {sid_to_user[s], target} = {e.from, e.targetId}

\* C20: one send_message request delivers at most one receive_message to
\* any one connection, also when the sender addresses itself and when
\* several identities of the fan-out resolve to the same connection.
C20_NoDuplicateDelivery ==
    \A s \in Sids :
        \A i, j \in 1..Len(outbox[s]) :
            (/\ i < j
             /\ outbox[s][i].ev = "receive_message"
             /\ outbox[s][j].ev = "receive_message")
                => outbox[s][i].req # outbox[s][j].req

====
